---- MODULE Spec2Model ----
(***************************************************************************)
(* UUID bruteforce benchmark: one coordinator (runBenchmark) supervising   *)
(* WORKER_COUNT search workers (worker.ts).  The coordinator is a          *)
(* single-threaded event loop: every handler (worker.onmessage,            *)
(* worker.onerror, the progress interval, the SIGINT handler) runs to      *)
(* completion, so each is one action.  A worker is a single-threaded event *)
(* loop too: self.onmessage and the setTimeout callback each run one       *)
(* whole checkBatch.                                                       *)
(*                                                                         *)
(* Each worker has one outbound channel to the coordinator.  sent[w] is    *)
(* everything worker w ever emitted (messages, and the error event if it   *)
(* threw), recv[w] how many of them the coordinator has handled; the host  *)
(* delivers a worker's events in emission order, with no order across      *)
(* workers.                                                                *)
(***************************************************************************)
EXTENDS Integers, Sequences, FiniteSets

\* ------------------------------------------------------------------ bounds
\* Cap on worker.ts batchCount: a worker runs at most this many batches.
MaxBatches == 2

\* ------------------------------------------------------- program constants
\* worker.ts BATCH_SIZE.  The source sets 100_000; the model scales it down
\* so that the candidates of one batch can be enumerated.
BATCH_SIZE == 2

\* part_000 WORKER_COUNT = navigator.hardwareConcurrency || 8, on a host
\* that reports two hardware threads.
WORKER_COUNT == 2

Workers == 0 .. (WORKER_COUNT - 1)

\* UUID.v4(): the candidate domain, three values standing for the 2^122.
Candidates == {0, 1, 2}

\* UUID.v5(c, c): the derivation oracle.  Deterministic and not injective,
\* so that a candidate other than the secret can derive to the target.
Derive(c) == c % 2

\* ------------------------------------------------- decimal text of counters
\* bigint.toString(): the decimal digits, most significant first.
RECURSIVE ToString(_)
ToString(n) == IF n < 10 THEN <<n>> ELSE Append(ToString(n \div 10), n % 10)

\* BigInt(text): the number a decimal digit string denotes.
RECURSIVE BigInt(_)
BigInt(s) ==
    IF Len(s) = 0 THEN 0
    ELSE 10 * BigInt(SubSeq(s, 1, Len(s) - 1)) + s[Len(s)]

\* workerProgress.reduce((a, b) => a + b, 0n)
RECURSIVE SumUpTo(_, _)
SumUpTo(wp, n) == IF n = 0 THEN 0 ELSE SumUpTo(wp, n - 1) + wp[n - 1]

Sum(wp) == SumUpTo(wp, WORKER_COUNT)

VARIABLES
    \* ---- coordinator (runBenchmark)
    targetPrivate,   \* the secret
    targetPublic,    \* Derive(targetPrivate)
    workerProgress,  \* workerId -> last count received
    totalChecked,
    running,
    found,
    intervalActive,  \* progressInterval not yet cleared
    terminated,      \* w -> worker.terminate() was called on it
    \* ---- process and console
    exited,          \* process.exit was called
    exitCode,        \* <<>> or <<code>>
    progressLine,    \* <<>> or <<total of the last rendered status line>>
    foundLog,        \* <<>> or <<[private, checked]>> of the FOUND IT block
    summaries,       \* the Final Statistics blocks printed, in order
    errorLog,        \* the worker ids logged by worker.onerror, as a set
    sigintPending,   \* a SIGINT was raised and its handler has not run
    sigintHandled,   \* the SIGINT handler has run (history)
    \* ---- workers (worker.ts)
    inbox,           \* w -> start messages posted to w and not yet received
    wState,          \* w -> "idle" | "scheduled" | "found" | "crashed"
    wTarget,         \* w -> targetPublic as received
    wId,             \* w -> workerId as received
    checked,         \* w -> the worker's own counter
    batchCount,      \* w -> batches completed
    generated,       \* w -> candidates UUID.v4() has returned to w (history)
    \* ---- channels worker -> coordinator
    sent,
    recv

coordVars == <<targetPrivate, targetPublic, workerProgress, totalChecked,
               running, found, intervalActive, terminated>>
ioVars == <<exited, exitCode, progressLine, foundLog, summaries, errorLog,
            sigintPending, sigintHandled>>
workerVars == <<inbox, wState, wTarget, wId, checked, batchCount, generated>>
chanVars == <<sent, recv>>
vars == <<coordVars, ioVars, workerVars, chanVars>>

\* A start message that carries workerId 0 whatever the loop index.
StartMsgIdZero(t, i) == [targetPublic |-> t, workerId |-> 0]

\* worker.postMessage({ targetPublic, workerId: i })
StartMsg(t, i) == [targetPublic |-> t, workerId |-> i]

\* The state when runBenchmark() returns: the target is drawn, every worker
\* is created and has its start message posted, the interval and the SIGINT
\* handler are registered.
Init ==
    /\ targetPrivate \in Candidates
    /\ targetPublic = Derive(targetPrivate)
    /\ workerProgress = [w \in Workers |-> 0]
    /\ totalChecked = 0
    /\ running = TRUE
    /\ found = FALSE
    /\ intervalActive = TRUE
    /\ terminated = [w \in Workers |-> FALSE]
    /\ exited = FALSE
    /\ exitCode = <<>>
    /\ progressLine = <<>>
    /\ foundLog = <<>>
    /\ summaries = <<>>
    /\ errorLog = {}
    /\ sigintPending = FALSE
    /\ sigintHandled = FALSE
    /\ inbox = [w \in Workers |-> <<StartMsg(targetPublic, w)>>]
    /\ wState = [w \in Workers |-> "idle"]
    /\ wTarget = [w \in Workers |-> 0]
    /\ wId = [w \in Workers |-> 0]
    /\ checked = [w \in Workers |-> 0]
    /\ batchCount = [w \in Workers |-> 0]
    /\ generated = [w \in Workers |-> 0]
    /\ sent = [w \in Workers |-> <<>>]
    /\ recv = [w \in Workers |-> 0]

\* ------------------------------------------------------------ worker.ts
\* checked++ on a two-bit counter instead of a bigint.
IncrWraps(c) == (c + 1) % 4

\* checked++ on an unbounded bigint.
Incr(c) == c + 1

\* n executions of checked++.
RECURSIVE CountAfter(_, _)
CountAfter(c, n) == IF n = 0 THEN c ELSE Incr(CountAfter(c, n - 1))

\* The for loop of checkBatch over the candidates cs[1..BATCH_SIZE] that
\* UUID.v4() would return: the index of the first one deriving to target,
\* 0 when none does.
FirstMatch(cs, target) ==
    IF \E i \in 1 .. Len(cs) : Derive(cs[i]) = target
    THEN CHOOSE i \in 1 .. Len(cs) :
            /\ Derive(cs[i]) = target
            /\ \A k \in 1 .. (i - 1) : Derive(cs[k]) # target
    ELSE 0

ProgressMsg(id, c) ==
    [type |-> "progress", workerId |-> id, checked |-> ToString(c)]

FoundMsg(id, cand, c) ==
    [type |-> "found", workerId |-> id, private |-> cand,
     checked |-> ToString(c)]

ErrorEvent == [type |-> "error"]

\* A match whose counter is incremented only after the comparison, so the
\* matching candidate is not counted in the 'found' message.
BatchFoundCountsLate(w, cs, m, id, c0, bc0) ==
    /\ checked' = [checked EXCEPT ![w] = CountAfter(c0, m - 1)]
    /\ generated' = [generated EXCEPT ![w] = @ + m]
    /\ batchCount' = [batchCount EXCEPT ![w] = bc0]
    /\ sent' = [sent EXCEPT ![w] =
                  Append(@, FoundMsg(id, cs[m], CountAfter(c0, m - 1)))]
    /\ wState' = [wState EXCEPT ![w] = "found"]

\* A match that posts 'found' and then falls through to the reschedule.
BatchFoundNoReturn(w, cs, m, id, c0, bc0) ==
    /\ checked' = [checked EXCEPT ![w] = CountAfter(c0, m)]
    /\ generated' = [generated EXCEPT ![w] = @ + m]
    /\ batchCount' = [batchCount EXCEPT ![w] = bc0]
    /\ sent' = [sent EXCEPT ![w] =
                  Append(@, FoundMsg(id, cs[m], CountAfter(c0, m)))]
    /\ wState' = [wState EXCEPT ![w] = "scheduled"]

\* The worker's state after a batch that found a match at index m of cs.
BatchFound(w, cs, m, id, c0, bc0) ==
    /\ checked' = [checked EXCEPT ![w] = CountAfter(c0, m)]
    /\ generated' = [generated EXCEPT ![w] = @ + m]
    /\ batchCount' = [batchCount EXCEPT ![w] = bc0]
    /\ sent' = [sent EXCEPT ![w] =
                  Append(@, FoundMsg(id, cs[m], CountAfter(c0, m)))]
    /\ wState' = [wState EXCEPT ![w] = "found"]

\* The worker's state after a batch without a match: report and reschedule.
BatchDone(w, id, c0, bc0) ==
    /\ checked' = [checked EXCEPT ![w] = CountAfter(c0, BATCH_SIZE)]
    /\ generated' = [generated EXCEPT ![w] = @ + BATCH_SIZE]
    /\ batchCount' = [batchCount EXCEPT ![w] = bc0 + 1]
    /\ sent' = [sent EXCEPT ![w] =
                  Append(@, ProgressMsg(id, CountAfter(c0, BATCH_SIZE)))]
    /\ wState' = [wState EXCEPT ![w] = "scheduled"]

\* One run of checkBatch by worker w, drawing the candidates cs, with the
\* closure's target and id, from counter c0 and batch count bc0.
CheckBatch(w, cs, target, id, c0, bc0) ==
    LET m == FirstMatch(cs, target) IN
    IF m > 0
    THEN BatchFound(w, cs, m, id, c0, bc0)
    ELSE BatchDone(w, id, c0, bc0)

Batches == [1 .. BATCH_SIZE -> Candidates]

WorkerAlive(w) == ~exited /\ ~terminated[w]

\* self.onmessage: take the start message, reset the counters, run the
\* first batch.
SelfOnMessage(w) ==
    /\ WorkerAlive(w)
    /\ wState[w] = "idle"
    /\ inbox[w] # <<>>
    /\ LET msg == Head(inbox[w]) IN
         /\ inbox' = [inbox EXCEPT ![w] = Tail(@)]
         /\ wTarget' = [wTarget EXCEPT ![w] = msg.targetPublic]
         /\ wId' = [wId EXCEPT ![w] = msg.workerId]
         /\ \E cs \in Batches :
              CheckBatch(w, cs, msg.targetPublic, msg.workerId, 0, 0)
    /\ UNCHANGED <<coordVars, ioVars, recv>>

\* The setTimeout(checkBatch, 0) callback: the next batch.
Timeout(w) ==
    /\ WorkerAlive(w)
    /\ wState[w] = "scheduled"
    /\ batchCount[w] < MaxBatches
    /\ \E cs \in Batches :
         CheckBatch(w, cs, wTarget[w], wId[w], checked[w], batchCount[w])
    /\ UNCHANGED <<coordVars, ioVars, inbox, wTarget, wId, recv>>

\* A throw that is reported while the batch loop stays scheduled.
ThrownKeepsLoop(w, j, c0) ==
    /\ checked' = [checked EXCEPT ![w] = CountAfter(c0, j)]
    /\ generated' = [generated EXCEPT ![w] = @ + j]
    /\ sent' = [sent EXCEPT ![w] = Append(@, ErrorEvent)]
    /\ wState' = [wState EXCEPT ![w] = "scheduled"]

\* What a throw inside checkBatch leaves behind, j candidates into the
\* batch: nothing is posted, nothing is rescheduled, the host raises the
\* error event on the coordinator's Worker object.
Thrown(w, j, c0) ==
    /\ checked' = [checked EXCEPT ![w] = CountAfter(c0, j)]
    /\ generated' = [generated EXCEPT ![w] = @ + j]
    /\ sent' = [sent EXCEPT ![w] = Append(@, ErrorEvent)]
    /\ wState' = [wState EXCEPT ![w] = "crashed"]

\* UUID.v4() / UUID.v5() throws in the first batch.
SelfOnMessageThrows(w) ==
    /\ WorkerAlive(w)
    /\ wState[w] = "idle"
    /\ inbox[w] # <<>>
    /\ LET msg == Head(inbox[w]) IN
         /\ inbox' = [inbox EXCEPT ![w] = Tail(@)]
         /\ wTarget' = [wTarget EXCEPT ![w] = msg.targetPublic]
         /\ wId' = [wId EXCEPT ![w] = msg.workerId]
    /\ \E j \in 0 .. (BATCH_SIZE - 1) : Thrown(w, j, 0)
    /\ UNCHANGED <<coordVars, ioVars, batchCount, recv>>

\* UUID.v4() / UUID.v5() throws in a later batch.
TimeoutThrows(w) ==
    /\ WorkerAlive(w)
    /\ wState[w] = "scheduled"
    /\ batchCount[w] < MaxBatches
    /\ \E j \in 0 .. (BATCH_SIZE - 1) : Thrown(w, j, checked[w])
    /\ UNCHANGED <<coordVars, ioVars, inbox, wTarget, wId, batchCount, recv>>

\* ------------------------------------------------------ runBenchmark
\* stopAll() that only asks the workers to stop: no terminate(), no exit.
StopAllCooperative(f) ==
    /\ running' = FALSE
    /\ intervalActive' = FALSE
    /\ terminated' = terminated
    /\ totalChecked' = Sum(workerProgress)
    /\ summaries' = Append(summaries,
                           [total |-> Sum(workerProgress), notFound |-> ~f])
    /\ exited' = exited
    /\ exitCode' = exitCode

\* stopAll() without its process.exit(0).
StopAllNoExit(f) ==
    /\ running' = FALSE
    /\ intervalActive' = FALSE
    /\ terminated' = [w \in Workers |-> TRUE]
    /\ totalChecked' = Sum(workerProgress)
    /\ summaries' = Append(summaries,
                           [total |-> Sum(workerProgress), notFound |-> ~f])
    /\ exited' = exited
    /\ exitCode' = exitCode

\* stopAll() that prints the total of the last tick instead of recomputing.
StopAllStaleTotal(f) ==
    /\ running' = FALSE
    /\ intervalActive' = FALSE
    /\ terminated' = [w \in Workers |-> TRUE]
    /\ totalChecked' = totalChecked
    /\ summaries' = Append(summaries,
                           [total |-> totalChecked, notFound |-> ~f])
    /\ exited' = TRUE
    /\ exitCode' = <<0>>

\* stopAll() without workers.forEach((w) => w.terminate()).
StopAllNoTerminate(f) ==
    /\ running' = FALSE
    /\ intervalActive' = FALSE
    /\ terminated' = terminated
    /\ totalChecked' = Sum(workerProgress)
    /\ summaries' = Append(summaries,
                           [total |-> Sum(workerProgress), notFound |-> ~f])
    /\ exited' = TRUE
    /\ exitCode' = <<0>>

\* stopAll(), entered with found = f.
StopAll(f) ==
    /\ running' = FALSE
    /\ intervalActive' = FALSE
    /\ terminated' = [w \in Workers |-> TRUE]
    /\ totalChecked' = Sum(workerProgress)
    /\ summaries' = Append(summaries,
                           [total |-> Sum(workerProgress), notFound |-> ~f])
    /\ exited' = TRUE
    /\ exitCode' = <<0>>

Pending(i) == recv[i] < Len(sent[i])

NextEvent(i) == sent[i][recv[i] + 1]

\* A progress handler that stores every count in slot 0.
OnProgressSlotZero(msg) ==
    /\ workerProgress' = [workerProgress EXCEPT ![0] = BigInt(msg.checked)]
    /\ UNCHANGED <<targetPrivate, targetPublic, totalChecked, running, found,
                   intervalActive, terminated, ioVars>>

\* A progress handler that adds the count to the entry (workerProgress[id] +=).
OnProgressAdds(msg) ==
    /\ workerProgress' =
         [workerProgress EXCEPT ![msg.workerId] = @ + BigInt(msg.checked)]
    /\ UNCHANGED <<targetPrivate, targetPublic, totalChecked, running, found,
                   intervalActive, terminated, ioVars>>

\* worker.onmessage, type 'progress'.
OnProgress(msg) ==
    /\ workerProgress' =
         [workerProgress EXCEPT ![msg.workerId] = BigInt(msg.checked)]
    /\ UNCHANGED <<targetPrivate, targetPublic, totalChecked, running, found,
                   intervalActive, terminated, ioVars>>

\* A found handler that forgets found = true.
OnFoundFlagUnset(msg) ==
    /\ found' = found
    /\ foundLog' = <<[private |-> msg.private,
                      checked |-> BigInt(msg.checked)]>>
    /\ StopAll(found)
    /\ UNCHANGED <<targetPrivate, targetPublic, workerProgress, progressLine,
                   errorLog, sigintPending, sigintHandled>>

\* worker.onmessage, type 'found'.
OnFound(msg) ==
    /\ found' = TRUE
    /\ foundLog' = <<[private |-> msg.private,
                      checked |-> BigInt(msg.checked)]>>
    /\ StopAll(TRUE)
    /\ UNCHANGED <<targetPrivate, targetPublic, workerProgress, progressLine,
                   errorLog, sigintPending, sigintHandled>>

\* worker.onmessage of worker i: the next message of its channel.
WorkerOnMessage(i) ==
    /\ ~exited
    /\ Pending(i)
    /\ NextEvent(i).type # "error"
    /\ recv' = [recv EXCEPT ![i] = @ + 1]
    /\ IF NextEvent(i).type = "progress"
       THEN OnProgress(NextEvent(i))
       ELSE OnFound(NextEvent(i))
    /\ UNCHANGED <<workerVars, sent>>

\* worker.onerror of worker i: log, nothing else.
WorkerOnError(i) ==
    /\ ~exited
    /\ Pending(i)
    /\ NextEvent(i).type = "error"
    /\ recv' = [recv EXCEPT ![i] = @ + 1]
    /\ errorLog' = errorLog \cup {i}
    /\ UNCHANGED <<coordVars, exited, exitCode, progressLine, foundLog,
                   summaries, sigintPending, sigintHandled, workerVars, sent>>

\* A tick that clears the table once it has shown its sum.
ProgressIntervalResets ==
    /\ ~exited
    /\ intervalActive
    /\ IF ~running
       THEN UNCHANGED <<totalChecked, progressLine, workerProgress>>
       ELSE /\ totalChecked' = Sum(workerProgress)
            /\ progressLine' = <<Sum(workerProgress)>>
            /\ workerProgress' = [w \in Workers |-> 0]
    /\ UNCHANGED <<targetPrivate, targetPublic, running,
                   found, intervalActive, terminated, exited, exitCode,
                   foundLog, summaries, errorLog, sigintPending,
                   sigintHandled, workerVars, chanVars>>

\* The setInterval callback.
ProgressInterval ==
    /\ ~exited
    /\ intervalActive
    /\ IF ~running
       THEN UNCHANGED <<totalChecked, progressLine>>
       ELSE /\ totalChecked' = Sum(workerProgress)
            /\ progressLine' = <<Sum(workerProgress)>>
    /\ UNCHANGED <<targetPrivate, targetPublic, workerProgress, running,
                   found, intervalActive, terminated, exited, exitCode,
                   foundLog, summaries, errorLog, sigintPending,
                   sigintHandled, workerVars, chanVars>>

\* The operator presses Ctrl+C.
RaiseSIGINT ==
    /\ ~exited
    /\ ~sigintPending
    /\ sigintPending' = TRUE
    /\ UNCHANGED <<coordVars, exited, exitCode, progressLine, foundLog,
                   summaries, errorLog, sigintHandled, workerVars, chanVars>>

\* A SIGINT handler that runs only once no worker event is in flight.
OnSIGINTDrainsFirst ==
    /\ ~exited
    /\ sigintPending
    /\ \A i \in Workers : ~Pending(i)
    /\ sigintPending' = FALSE
    /\ sigintHandled' = TRUE
    /\ StopAll(found)
    /\ UNCHANGED <<targetPrivate, targetPublic, workerProgress, found,
                   progressLine, foundLog, errorLog, workerVars, chanVars>>

\* process.on('SIGINT', ...).
OnSIGINT ==
    /\ ~exited
    /\ sigintPending
    /\ sigintPending' = FALSE
    /\ sigintHandled' = TRUE
    /\ StopAll(found)
    /\ UNCHANGED <<targetPrivate, targetPublic, workerProgress, found,
                   progressLine, foundLog, errorLog, workerVars, chanVars>>

Next ==
    \/ \E w \in Workers : SelfOnMessage(w)
    \/ \E w \in Workers : Timeout(w)
    \/ \E w \in Workers : SelfOnMessageThrows(w)
    \/ \E w \in Workers : TimeoutThrows(w)
    \/ \E i \in Workers : WorkerOnMessage(i)
    \/ \E i \in Workers : WorkerOnError(i)
    \/ ProgressInterval
    \/ RaiseSIGINT
    \/ OnSIGINT

Spec == Init /\ [][Next]_vars

\* The coordinator's event loop runs every handler whose event is queued.
Fairness ==
    /\ \A i \in Workers : WF_vars(WorkerOnMessage(i))
    /\ \A i \in Workers : WF_vars(WorkerOnError(i))
    /\ WF_vars(OnSIGINT)

FairSpec == Spec /\ Fairness

\* Only the SIGINT handler is assumed to run: no worker needs to report.
SigintFairSpec == Spec /\ WF_vars(OnSIGINT)

\* ================================================================ claims
AllTerminated == \A w \in Workers : terminated[w]

Last(q) == q[Len(q)]

\* The events of worker w the coordinator has handled so far.
Handled(w) == SubSeq(sent[w], 1, recv[w])

\* The count of the last 'progress' message handled from w, 0 before any.
RECURSIVE LastCount(_)
LastCount(q) ==
    IF Len(q) = 0 THEN 0
    ELSE IF Last(q).type = "progress" THEN BigInt(Last(q).checked)
    ELSE LastCount(SubSeq(q, 1, Len(q) - 1))

RECURSIVE SumLastCounts(_)
SumLastCounts(n) ==
    IF n = 0 THEN 0 ELSE SumLastCounts(n - 1) + LastCount(Handled(n - 1))

\* C1: the final summary is printed at most once in every run, and exactly
\* once by the time the process has exited, whatever the interleaving of
\* 'found' messages and interrupts.
C1_SummaryOnce ==
    /\ Len(summaries) <= 1
    /\ exited <=> Len(summaries) = 1

\* A found message was handled while an interrupt was raised and waiting.
C1_Witness ==
    /\ exited
    /\ found
    /\ sigintPending
    /\ Len(summaries) = 1

\* C2: once stopAll() has printed its summary the coordinator handles no
\* further worker event: workerProgress, found, the logged secret and the
\* channel read positions never change again.
C2_NothingAfterStop ==
    [][summaries # <<>> =>
         UNCHANGED <<workerProgress, found, foundLog, recv>>]_vars

\* Stopped with a 'progress' or 'found' message still in flight.
C2_Witness ==
    /\ exited
    /\ \E w \in Workers :
         /\ Pending(w)
         /\ NextEvent(w).type \in {"progress", "found"}

FoundSent(w) == sent[w] # <<>> /\ Last(sent[w]).type = "found"

\* The coordinator handled the 'found' message of worker w.
FoundHandled(w) == FoundSent(w) /\ recv[w] = Len(sent[w])

\* C3 as stated: every worker that posts 'found' has that very message
\* handled, unless the SIGINT handler runs.
C3_Original ==
    \A w \in Workers :
        FoundSent(w) ~> (sigintHandled \/ (exited /\ found /\ FoundHandled(w)))

\* Shut down on a handled 'found' message, with its candidate recovered.
FoundShutdown ==
    /\ exited
    /\ AllTerminated
    /\ found
    /\ foundLog # <<>>
    /\ Derive(foundLog[1].private) = targetPublic
    /\ \E w \in Workers :
         /\ FoundHandled(w)
         /\ Last(sent[w]).private = foundLog[1].private

\* C3 (amended): once some worker has posted 'found', the coordinator
\* eventually handles a 'found' message (that one, or another worker's that
\* reaches it first) and shuts down with found = true and the candidate of
\* the handled message, which derives to the target, unless the SIGINT
\* handler runs first.
C3_FoundLeadsToShutdown ==
    (\E w \in Workers : FoundSent(w)) ~> (sigintHandled \/ FoundShutdown)

\* Shut down on 'found' with a recovered candidate that is not the secret.
C3_Witness ==
    /\ FoundShutdown
    /\ ~sigintHandled
    /\ foundLog[1].private # targetPrivate

\* C4: after a shutdown by interrupt the one summary reports not found and
\* a total equal to the sum of the last counts handled from each worker.
C4_InterruptSummary ==
    (exited /\ sigintHandled) =>
        /\ ~found
        /\ Len(summaries) = 1
        /\ summaries[1].notFound
        /\ summaries[1].total = SumLastCounts(WORKER_COUNT)

\* Interrupted with no match anywhere and a total above the last tick's.
C4_Witness ==
    /\ exited
    /\ sigintHandled
    /\ \A w \in Workers : ~FoundSent(w)
    /\ progressLine # <<>>
    /\ progressLine[1] > 0
    /\ summaries[1].total > progressLine[1]

\* C5: the counts of a worker's successive 'progress' messages never
\* decrease.
C5_ProgressMonotone ==
    \A w \in Workers :
        \A i, j \in 1 .. Len(sent[w]) :
            (i < j /\ sent[w][i].type = "progress"
                   /\ sent[w][j].type = "progress")
            => BigInt(sent[w][i].checked) <= BigInt(sent[w][j].checked)

\* Some worker has posted two 'progress' messages.
C5_Witness ==
    \E w \in Workers :
        /\ Len(sent[w]) >= 2
        /\ sent[w][1].type = "progress"
        /\ sent[w][2].type = "progress"

\* C6: the sum of workerProgress never decreases, and whenever a tick or
\* stopAll() produces a total it is the full sum of the table.
C6_SumMonotone ==
    [][/\ Sum(workerProgress') >= Sum(workerProgress)
       /\ (totalChecked' # totalChecked \/ progressLine' # progressLine)
            => totalChecked' = Sum(workerProgress')
       /\ summaries' # summaries
            => Last(summaries').total = Sum(workerProgress')]_vars

\* Both workers have reported, worker 1 further than worker 0, and a tick
\* has shown the sum.
C6_Witness ==
    /\ workerProgress[0] > 0
    /\ workerProgress[1] > workerProgress[0]
    /\ progressLine = <<Sum(workerProgress)>>

\* C7: 'found' is the last event a worker emits, and a worker that has
\* emitted it never runs again.
C7_FoundIsLast ==
    /\ [](\A w \in Workers : \A i \in 1 .. Len(sent[w]) :
            sent[w][i].type = "found" => i = Len(sent[w]))
    /\ [][\A w \in Workers : FoundSent(w) =>
            /\ sent'[w] = sent[w]
            /\ wState'[w] = "found"
            /\ checked'[w] = checked[w]
            /\ batchCount'[w] = batchCount[w]]_vars

\* A worker found a match after a full batch, and the run goes on.
C7_Witness ==
    /\ ~exited
    /\ \E w \in Workers :
         /\ FoundSent(w)
         /\ Len(sent[w]) >= 2
         /\ \E v \in Workers : v # w /\ wState[v] = "scheduled"

\* C8: running never goes back to true, found never goes back to false,
\* an exited process stays exited, and the process exits only with every
\* worker terminated.
C8_OneDirection ==
    /\ [](exited => AllTerminated /\ ~running)
    /\ [][/\ ~running => ~running'
          /\ found => found'
          /\ exited => exited']_vars

\* Stopped on a found message.
C8_Witness ==
    /\ exited
    /\ found
    /\ ~running
    /\ AllTerminated

\* C9: handling a worker's error leaves the run running with no worker
\* terminated, and the entry of a worker whose error was handled never
\* changes again.
C9_ErrorNotFatal ==
    [][/\ errorLog' # errorLog =>
            /\ running' /\ ~exited'
            /\ UNCHANGED <<workerProgress, terminated, found, intervalActive>>
       /\ \A i \in errorLog : workerProgress'[i] = workerProgress[i]]_vars

\* Worker i failed after reporting; the other worker has reported more
\* than a failed worker's first batch and the run goes on.
C9_Witness ==
    /\ running
    /\ ~exited
    /\ \E i, k \in Workers :
         /\ i # k
         /\ i \in errorLog
         /\ workerProgress[i] > 0
         /\ workerProgress[k] > workerProgress[i]
         /\ wState[k] = "scheduled"

\* C10: a raised interrupt leads to the process exited with code 0, one
\* summary printed with the last known counts, and every worker terminated.
C10_InterruptLeadsToExit ==
    sigintPending ~>
        /\ exited
        /\ exitCode = <<0>>
        /\ AllTerminated
        /\ Len(summaries) = 1
        /\ summaries[1].total = Sum(workerProgress)

\* Interrupted with every worker failed and a 'progress' message unhandled.
C10_Witness ==
    /\ exited
    /\ sigintHandled
    /\ exitCode = <<0>>
    /\ \A w \in Workers : wState[w] = "crashed"
    /\ \E w \in Workers : Pending(w) /\ NextEvent(w).type = "progress"

\* The 'progress' messages among the events q.
RECURSIVE NumProgress(_)
NumProgress(q) ==
    IF Len(q) = 0 THEN 0
    ELSE NumProgress(SubSeq(q, 1, Len(q) - 1))
         + (IF Last(q).type = "progress" THEN 1 ELSE 0)

\* The counts of the 'progress' messages among the events q, added up.
RECURSIVE SumOfCounts(_)
SumOfCounts(q) ==
    IF Len(q) = 0 THEN 0
    ELSE SumOfCounts(SubSeq(q, 1, Len(q) - 1))
         + (IF Last(q).type = "progress" THEN BigInt(Last(q).checked) ELSE 0)

RECURSIVE HandledProgress(_, _, _)
HandledProgress(snt, rcv, n) ==
    IF n = 0 THEN 0
    ELSE HandledProgress(snt, rcv, n - 1)
         + NumProgress(SubSeq(snt[n - 1], 1, rcv[n - 1]))

RECURSIVE HandledCounts(_, _, _)
HandledCounts(snt, rcv, n) ==
    IF n = 0 THEN 0
    ELSE HandledCounts(snt, rcv, n - 1)
         + SumOfCounts(SubSeq(snt[n - 1], 1, rcv[n - 1]))

\* C11 as stated, the count of a message read as what the message adds:
\* the total a tick shows is the sum of the counts of all the 'progress'
\* messages handled so far (K * c for K messages of count c).
C11_Original ==
    [][progressLine' # progressLine =>
         progressLine'[1] = HandledCounts(sent', recv', WORKER_COUNT)]_vars

\* C11 (amended): the total a tick shows is BATCH_SIZE times the number of
\* 'progress' messages handled so far; the k-th message of a worker carries
\* the cumulative count k * BATCH_SIZE and replaces the worker's entry, so
\* K messages from one worker show K * BATCH_SIZE, the count of the last.
C11_TickTotal ==
    [][progressLine' # progressLine =>
         progressLine'[1] =
            BATCH_SIZE * HandledProgress(sent', recv', WORKER_COUNT)]_vars

\* A tick showed 2 * BATCH_SIZE after two messages of one worker and none
\* of any other.
C11_Witness ==
    /\ progressLine = <<2 * BATCH_SIZE>>
    /\ \E w \in Workers :
         /\ NumProgress(Handled(w)) = 2
         /\ \A v \in Workers \ {w} : NumProgress(Handled(v)) = 0

\* C13 as stated: after a shutdown on 'found' the summary's total is at
\* least the count of the handled 'found' message.
C13_Original ==
    (exited /\ found) => summaries[1].total >= foundLog[1].checked

\* C14: once stopAll() has printed its summary no worker runs again: no
\* worker posts a message, starts a batch or counts a candidate.
C14_StoppedWorkersStay ==
    [][summaries # <<>> =>
         UNCHANGED <<sent, wState, checked, batchCount, generated, inbox>>]_vars

\* Stopped by terminate() with a batch scheduled and one never started.
C14_Witness ==
    /\ summaries # <<>>
    /\ AllTerminated
    /\ \E w, v \in Workers :
         /\ wState[w] = "scheduled"
         /\ batchCount[w] < MaxBatches
         /\ wState[v] = "idle"

\* C15: the k-th 'progress' message of a worker carries k * BATCH_SIZE; a
\* 'found' message that follows k 'progress' messages carries the number of
\* candidates the worker generated, which is k * BATCH_SIZE + j with
\* 1 <= j <= BATCH_SIZE.
C15_FoundCount ==
    \A w \in Workers : \A i \in 1 .. Len(sent[w]) :
        LET msg == sent[w][i] IN
        /\ msg.type = "progress" => BigInt(msg.checked) = i * BATCH_SIZE
        /\ msg.type = "found" =>
             /\ NumProgress(sent[w]) = i - 1
             /\ BigInt(msg.checked) = generated[w]
             /\ BigInt(msg.checked) >= (i - 1) * BATCH_SIZE + 1
             /\ BigInt(msg.checked) <= i * BATCH_SIZE

\* A match on the first candidate of the second batch.
C15_Witness ==
    \E w \in Workers :
        /\ Len(sent[w]) = 2
        /\ sent[w][1].type = "progress"
        /\ sent[w][2].type = "found"
        /\ BigInt(sent[w][2].checked) = BATCH_SIZE + 1

\* C16: every worker gets exactly one start message, with the coordinator's
\* target and its own index as workerId; the ids a worker uses are its own;
\* a start message is taken once and none is ever added.
C16_StartOnce ==
    /\ [](\A w \in Workers :
            /\ Len(inbox[w]) + (IF wState[w] = "idle" THEN 0 ELSE 1) = 1
            /\ \A i \in 1 .. Len(inbox[w]) :
                 /\ inbox[w][i].targetPublic = targetPublic
                 /\ inbox[w][i].workerId = w
            /\ wState[w] # "idle" =>
                 /\ wTarget[w] = targetPublic
                 /\ wId[w] = w
                 /\ \A v \in Workers : (v # w /\ wState[v] # "idle")
                                          => wId[v] # wId[w]
            /\ \A i \in 1 .. Len(sent[w]) :
                 sent[w][i].type # "error" => sent[w][i].workerId = w)
    /\ [][\A w \in Workers :
            \/ inbox'[w] = inbox[w]
            \/ wState[w] = "idle" /\ Len(inbox[w]) = 1 /\ inbox'[w] = <<>>]_vars

\* Both workers have taken their start message and reported.
C16_Witness ==
    /\ ~exited
    /\ \A w \in Workers :
         /\ inbox[w] = <<>>
         /\ wState[w] = "scheduled"
         /\ sent[w] # <<>>
         /\ sent[w][1].workerId = w

\* C17: a status line is produced only while running, shows the sum of the
\* table, and the tick that produces it changes neither workerProgress nor
\* found nor running nor anything else of the coordinator.
C17_TickOnlyReads ==
    [][/\ progressLine' # progressLine =>
            /\ running /\ running'
            /\ progressLine' = <<Sum(workerProgress)>>
            /\ UNCHANGED <<workerProgress, found, foundLog, intervalActive,
                           terminated, exited, summaries, errorLog, recv>>
       /\ ~running => progressLine' = progressLine]_vars

\* A tick showed the counts of both workers.
C17_Witness ==
    /\ running
    /\ progressLine # <<>>
    /\ progressLine[1] = Sum(workerProgress)
    /\ \A w \in Workers : workerProgress[w] > 0

\* C18: handling a 'progress' message of worker w sets workerProgress[w] to
\* the count it carries and leaves every other entry, found, the logged
\* secret, running and the rest of the coordinator unchanged.
C18_ProgressFrame ==
    [][\A w \in Workers :
         (recv'[w] = recv[w] + 1 /\ NextEvent(w).type = "progress") =>
            /\ workerProgress' = [workerProgress EXCEPT
                                    ![w] = BigInt(NextEvent(w).checked)]
            /\ UNCHANGED <<found, foundLog, running, totalChecked,
                           progressLine, intervalActive, terminated, exited,
                           summaries, errorLog>>]_vars

\* Worker 1's second message was handled after worker 0's first.
C18_Witness ==
    /\ ~exited
    /\ workerProgress[0] = BATCH_SIZE
    /\ workerProgress[1] = 2 * BATCH_SIZE

RECURSIVE SumGenerated(_)
SumGenerated(n) == IF n = 0 THEN 0 ELSE SumGenerated(n - 1) + generated[n - 1]

\* C19: every entry of workerProgress is a multiple of BATCH_SIZE and at
\* most the number of candidates its worker generated, and every total
\* shown by a tick or a summary is at most the number all workers generated.
C19_NeverOverReports ==
    /\ \A w \in Workers :
         /\ workerProgress[w] % BATCH_SIZE = 0
         /\ workerProgress[w] <= generated[w]
    /\ totalChecked <= SumGenerated(WORKER_COUNT)
    /\ progressLine # <<>> => progressLine[1] <= SumGenerated(WORKER_COUNT)
    /\ \A i \in 1 .. Len(summaries) :
         summaries[i].total <= SumGenerated(WORKER_COUNT)

\* A summary below the true count: a worker generated more than it reported.
C19_Witness ==
    /\ summaries # <<>>
    /\ summaries[1].total > 0
    /\ summaries[1].total < SumGenerated(WORKER_COUNT)
    /\ \E w \in Workers : 0 < workerProgress[w] /\ workerProgress[w] < generated[w]

====
